---- MODULE Spec2Model ----
(***************************************************************************)
(* The trial orchestration loop of rafiki's train worker                   *)
(* (src/src/worker/Worker.py), run by several worker processes against one *)
(* shared transactional store.  Every `with self._db:` block, and the      *)
(* connect/.../disconnect block of _do_new_trial, is one store transaction *)
(* and one action; the model capability's calls between two transactions   *)
(* touch no shared state and are one action.                               *)
(***************************************************************************)
EXTENDS Naturals, Integers, Sequences, FiniteSets, TLC

\* ---------------------------------------------------------------- bounds
\* the largest budget_amount of a train job
MaxBudget == 2
\* the most rows earlier worker processes left in the store
MaxPrior == 1
\* the store holds no more rows than this (an all-errors worker creates without end)
MaxTrials == 3

\* two worker processes, which may share a train job and a model
Workers == {1, 2}
TrainJobIds == {1, 2}
ModelIds == {1, 2}
\* a train job whose row carries a budget type the budget policy does not know, and
\* a model whose hyperparameter configuration the tuning strategy rejects
MisconfiguredTrainJobIds == {3}
MalformedModelIds == {3}
\* ids an assignment may carry that the store has no row for
UnknownTrainJobIds == {4}
UnknownModelIds == {4}
BudgetTypes == {"MODEL_TRIAL_COUNT"}
\* values a tuner may propose, scores evaluate may return, blobs dump_parameters may return
Hyperparameters == {"hp_new"}
Scores == {7}
ParameterBlobs == {"blob_new"}

\* Python's None and a present value
None == <<>>
Some(v) == <<v>>

VARIABLES
    trials,          \* store: the trial rows, a trial's id is its index
    workers,         \* store: the worker assignment rows
    train_jobs,      \* store: the train job rows (read-only for the worker)
    store_mode,      \* environment: whether store calls may raise
    model_mode,      \* environment: how the model capability behaves
    pc,              \* each worker process's position in Worker.start
    train_job_id,    \* local of start (line 40)
    model_id,        \* local of start (line 39)
    exit_code,       \* local of start (line 35)
    trial_id,        \* local of _do_new_trial (line 78)
    score,           \* local of _do_new_trial (line 95)
    parameters,      \* local of _do_new_trial (line 99)
    calls,           \* the model capability calls made for the current trial, in order:
                     \* <<name, how it ended, argument, value returned>>
    model_trial_history, \* local of _get_tuner_for_model (line 172)
    budget_reached,  \* what the last call of _if_budget_reached returned
    raised_in,       \* where the exception that reached start's handler was raised
    created_by,      \* for each trial id, the worker that created it (0: an earlier process)
    late_created     \* how many trials each worker created with its job's budget reached

vars == <<trials, workers, train_jobs, store_mode, model_mode, pc, train_job_id,
          model_id, exit_code, trial_id, score, parameters, calls,
          model_trial_history, budget_reached, raised_in, created_by,
          late_created>>

store_vars == <<trials, workers, train_jobs>>
env_vars == <<store_mode, model_mode>>

\* ------------------------------------------------------------ the store
TrialStatus == {"RUNNING", "COMPLETED", "ERRORED"}

\* db.create_trial: a new row in status running, without score or parameters
new_trial(m, j, hp) ==
    [train_job_id |-> j, model_id |-> m, hyperparameters |-> hp,
     status |-> "RUNNING", score |-> None, parameters |-> None]

create_trial(m, j, hp) == Append(trials, new_trial(m, j, hp))

mark_trial_as_complete(t, s, p) ==
    [trials EXCEPT ![t].status = "COMPLETED", ![t].score = s, ![t].parameters = p]

mark_trial_as_errored(t) == [trials EXCEPT ![t].status = "ERRORED"]

\* db.get_completed_trials_by_train_job: the ids of the job's complete trials, in order
RECURSIVE completed_from(_, _)
completed_from(j, i) ==
    IF i > Len(trials) THEN <<>>
    ELSE (IF trials[i].status = "COMPLETED" /\ trials[i].train_job_id = j
          THEN <<i>> ELSE <<>>) \o completed_from(j, i + 1)

get_completed_trials_by_train_job(j) == completed_from(j, 1)

\* db.get_train_job, db.get_model: None for an unknown id
get_train_job(j) == IF j \in DOMAIN train_jobs THEN Some(train_jobs[j]) ELSE None
get_model(m) == IF m \in ModelIds \cup MalformedModelIds THEN Some(m) ELSE None

mark_train_job_worker_as_running(w) == [workers EXCEPT ![w].status = "RUNNING"]
mark_train_job_worker_as_stopped(w) == [workers EXCEPT ![w].status = "STOPPED"]

\* the outcomes of one store transaction: it commits, or it raises and changes nothing
StoreOutcomes == IF store_mode = "faulty" THEN {"commit", "raise"} ELSE {"commit"}

\* ------------------------------------------------------- budget policy
if_train_job_budget_reached(budget_type, budget_amount, completed_trials) ==
    Len(completed_trials) >= budget_amount

\* the policy raises for a budget type it does not know
if_train_job_budget_reached_raises(budget_type) == budget_type \notin BudgetTypes

\* lines 119-127 raise when the train job is unknown (line 124 reads its
\* budget_type) or when the policy raises
if_budget_reached_raises(j) ==
    \/ get_train_job(j) = None
    \/ if_train_job_budget_reached_raises(get_train_job(j)[1].budget_type)

\* A faulty variant of _if_budget_reached, which hands the policy all the job's
\* trials whatever their status (the properties below must tell it from the code).
get_trials_by_train_job(j) ==
    SelectSeq([i \in 1..Len(trials) |-> i], LAMBDA i : trials[i].train_job_id = j)

if_budget_reached_any_status(j) ==
    if_train_job_budget_reached(train_jobs[j].budget_type,
                                train_jobs[j].budget_amount,
                                get_trials_by_train_job(j))

\* Worker._if_budget_reached
if_budget_reached(j) ==
    if_train_job_budget_reached(train_jobs[j].budget_type,
                                train_jobs[j].budget_amount,
                                get_completed_trials_by_train_job(j))

\* ------------------------------------------------------ tuning history
RECURSIVE history_of(_, _)
history_of(ids, m) ==
    IF ids = <<>> THEN <<>>
    ELSE (IF trials[Head(ids)].model_id = m
          THEN << <<trials[Head(ids)].hyperparameters, trials[Head(ids)].score>> >>
          ELSE <<>>) \o history_of(Tail(ids), m)

\* create_tuner, train_tuner or propose_with_tuner raises for a malformed
\* hyperparameter configuration
tuner_raises(m) == m \in MalformedModelIds

\* lines 130-138: _create_new_trial raises before create_trial when the train job
\* or the model is unknown, or when the hyperparameter selection raises
create_new_trial_raises(j, m) ==
    \/ get_train_job(j) = None
    \/ get_model(m) = None
    \/ tuner_raises(m)

\* A faulty variant of lines 171-172 without the `if x.model_id == model.id` filter.
get_model_trial_history_all_models(j, m) ==
    [i \in 1..Len(get_completed_trials_by_train_job(j)) |->
        <<trials[get_completed_trials_by_train_job(j)[i]].hyperparameters,
          trials[get_completed_trials_by_train_job(j)[i]].score>>]

\* Worker._get_tuner_for_model, lines 171-172
get_model_trial_history(j, m) == history_of(get_completed_trials_by_train_job(j), m)

\* ---------------------------------------------------- model capability
\* the calls of _do_new_trial's try block, in program order
ModelProgram ==
    <<"unserialize_model", "init", "train", "evaluate", "dump_parameters", "destroy">>

\* which call raises (0: none)
RaisingCalls ==
    CASE model_mode = "succeeds" -> {0}
      [] model_mode = "raises_on_train" -> {3}
      [] OTHER -> 0..Len(ModelProgram)

\* the calls made when call k raises (k itself included), each with how it ended
CallsMade(k) ==
    [i \in 1..(IF k = 0 THEN Len(ModelProgram) ELSE k) |->
        <<ModelProgram[i], IF i = k THEN "raised" ELSE "returned">>]
\* whether the call `name` returned
Returned(k, name) ==
    \E i \in 1..Len(ModelProgram) : ModelProgram[i] = name /\ (k = 0 \/ i < k)

\* lines 85 and 110: the try block ends at the commit of the complete mark, and any
\* exception in it enters the handler that marks the trial errored.  (Each of the
\* three control transfers below comes with a faulty variant: no handler, a
\* handler that swallows the failure of the complete mark, no break.)
after_model_calls_unhandled(k) == IF k = 0 THEN "mark_complete" ELSE "mark_stopped"
after_model_calls(k) == IF k = 0 THEN "mark_complete" ELSE "mark_errored"

\* lines 102-110: the transaction marking the trial complete is inside the try block
after_mark_complete_raises_swallowed == "read_assignment"
after_mark_complete_raises == "mark_errored"

\* lines 47-54: the budget is reached: exit_code = 0 and break
after_budget_reached_no_break == "create_trial"
after_budget_reached == "mark_stopped"

\* ------------------------------------------------------------- initial
\* rows left in the store by earlier worker processes; a complete row's score tells
\* its train job and model
PriorRow(j, m, st) ==
    [train_job_id |-> j, model_id |-> m, hyperparameters |-> "hp_old", status |-> st,
     score |-> IF st = "COMPLETED" THEN Some(10 * j + m) ELSE None,
     parameters |-> IF st = "COMPLETED" THEN Some("blob_old") ELSE None]

PriorRows ==
    {PriorRow(1, 1, "COMPLETED"), PriorRow(1, 2, "COMPLETED"), PriorRow(2, 1, "COMPLETED"),
     PriorRow(1, 1, "ERRORED"), PriorRow(1, 1, "RUNNING")}

RECURSIVE SeqsUpTo(_, _)
SeqsUpTo(S, n) ==
    IF n = 0 THEN {<<>>}
    ELSE SeqsUpTo(S, n - 1) \cup
         {Append(s, x) : s \in {q \in SeqsUpTo(S, n - 1) : Len(q) = n - 1}, x \in S}

\* the environments a run may have: how the store and the model capability behave
Environments ==
    {<<"reliable", "succeeds">>, <<"reliable", "raises_on_train">>,
     <<"faulty", "succeeds">>, <<"faulty", "arbitrary">>}

\* the assignments <<train_job_id, model_id>> the two workers start with: both on
\* train job 1, with the same model or with different ones, or the first worker
\* with an assignment that is unknown to the store or misconfigured, or both
\* workers with a misconfigured one
Assignments ==
    {<<a, <<1, 1>>>> : a \in {<<1, 1>>, <<3, 1>>, <<4, 1>>, <<1, 3>>, <<1, 4>>}}
        \cup {<< <<1, 1>>, <<1, 2>> >>, << <<1, 3>>, <<3, 1>> >>}

Init ==
    /\ trials \in SeqsUpTo(PriorRows, MaxPrior)
    /\ created_by = [i \in 1..Len(trials) |-> 0]
    /\ late_created = [w \in Workers |-> 0]
    /\ \E b \in 0..MaxBudget :
         train_jobs = [j \in TrainJobIds \cup MisconfiguredTrainJobIds |->
                         [budget_type |-> IF j \in TrainJobIds THEN "MODEL_TRIAL_COUNT"
                                          ELSE "UNKNOWN",
                          budget_amount |-> b,
                          train_dataset_uri |-> <<"train_uri", j>>,
                          test_dataset_uri |-> <<"test_uri", j>>]]
    /\ \E a \in Assignments :
         /\ workers = [w \in Workers |->
                         [train_job_id |-> a[w][1], model_id |-> a[w][2],
                          status |-> "IDLE"]]
         \* the rows of earlier processes are varied for well-configured workers
         /\ a[1] # <<1, 1>> => trials = <<>>
    /\ \E e \in Environments :
         /\ store_mode = e[1] /\ model_mode = e[2]
         \* and, with a store that may fail, for the model that may raise anywhere
         \* (whose runs include those of the model that never raises)
         /\ e = <<"faulty", "succeeds">> => trials = <<>>
    /\ pc = [w \in Workers |-> "start"]
    /\ train_job_id = [w \in Workers |-> None]
    /\ model_id = [w \in Workers |-> None]
    /\ exit_code = [w \in Workers |-> None]
    /\ trial_id = [w \in Workers |-> None]
    /\ score = [w \in Workers |-> None]
    /\ parameters = [w \in Workers |-> None]
    /\ calls = [w \in Workers |-> <<>>]
    /\ model_trial_history = [w \in Workers |-> <<>>]
    /\ budget_reached = [w \in Workers |-> None]
    /\ raised_in = [w \in Workers |-> "nothing"]

\* ------------------------------------------------------------- actions
\* lines 64-65: the handler breaks out of the loop.  (The faulty variant goes on
\* with the next iteration.)
after_start_except_retries == "read_assignment"
after_start_except == "mark_stopped"

\* what start's `except Exception` handler does (lines 58-65)
start_except(w, where) ==
    /\ exit_code' = [exit_code EXCEPT ![w] = Some(1)]
    /\ raised_in' = [raised_in EXCEPT ![w] = where]
    /\ pc' = [pc EXCEPT ![w] = after_start_except]

\* an exception that leaves start: the process ends without reaching exit()
start_raises(w) == pc' = [pc EXCEPT ![w] = "raised"]

\* lines 31-33
start_mark_running(w) ==
    /\ pc[w] = "start"
    /\ \E o \in StoreOutcomes :
         IF o = "commit"
         THEN /\ workers' = mark_train_job_worker_as_running(w)
              /\ pc' = [pc EXCEPT ![w] = "read_assignment"]
         ELSE /\ start_raises(w)
              /\ UNCHANGED workers
    /\ UNCHANGED <<trials, train_jobs, env_vars, train_job_id, model_id, exit_code,
                   trial_id, score, parameters, calls, model_trial_history,
                   budget_reached, raised_in, created_by,
                   late_created>>

\* lines 38-45
start_read_assignment(w) ==
    /\ pc[w] = "read_assignment"
    /\ \E o \in StoreOutcomes :
         IF o = "commit"
         THEN /\ model_id' = [model_id EXCEPT ![w] = Some(workers[w].model_id)]
              /\ train_job_id' = [train_job_id EXCEPT ![w] = Some(workers[w].train_job_id)]
              /\ pc' = [pc EXCEPT ![w] = "budget_check"]
              /\ UNCHANGED <<exit_code, raised_in>>
         ELSE /\ model_id' = [model_id EXCEPT ![w] = None]
              /\ train_job_id' = [train_job_id EXCEPT ![w] = None]
              /\ start_except(w, "read_assignment")
    /\ UNCHANGED <<store_vars, env_vars, trial_id, score, parameters, calls,
                   model_trial_history, budget_reached, created_by,
                   late_created>>

\* lines 47-54
start_budget_check(w) ==
    /\ pc[w] = "budget_check"
    /\ \E o \in StoreOutcomes :
         IF o = "commit" /\ ~if_budget_reached_raises(train_job_id[w][1])
         THEN LET reached == if_budget_reached(train_job_id[w][1]) IN
              /\ budget_reached' = [budget_reached EXCEPT ![w] = Some(reached)]
              /\ IF reached
                 THEN /\ exit_code' = [exit_code EXCEPT ![w] = Some(0)]
                      /\ pc' = [pc EXCEPT ![w] = after_budget_reached]
                 ELSE /\ pc' = [pc EXCEPT ![w] = "create_trial"]
                      /\ UNCHANGED exit_code
              /\ UNCHANGED raised_in
         ELSE /\ start_except(w, "budget_check")
              /\ UNCHANGED budget_reached
    /\ UNCHANGED <<store_vars, env_vars, train_job_id, model_id, trial_id, score,
                   parameters, calls, model_trial_history, created_by,
                   late_created>>

\* lines 103 and 115: the trial a finalization fetches is the one this call of
\* _do_new_trial created.  (The faulty variant fetches the store's latest trial.)
finalized_trial_latest(w) == Len(trials)
finalized_trial(w) == trial_id[w][1]

\* lines 102-108: the only write of the complete mark is mark_trial_as_complete
\* with the score evaluate returned and the blob dump_parameters returned.  (The
\* faulty variants pass no score, or save the row anew from the worker's locals,
\* without its hyperparameters.)
mark_complete_write_without_score(w) ==
    mark_trial_as_complete(finalized_trial(w), None, parameters[w])
mark_complete_write_saves_row_anew(w) ==
    [trials EXCEPT ![finalized_trial(w)] =
        [new_trial(model_id[w][1], train_job_id[w][1], None) EXCEPT
            !.status = "COMPLETED", !.score = score[w], !.parameters = parameters[w]]]
mark_complete_write(w) ==
    mark_trial_as_complete(finalized_trial(w), score[w], parameters[w])

\* lines 114-116
mark_errored_write(w) == mark_trial_as_errored(finalized_trial(w))

\* lines 129-145: whatever raises in _create_new_trial raises before its commit,
\* and start's handler writes nothing to the trial rows.  (The faulty variant has
\* committed the row before the call that raises.)
failed_create_rows_orphan(w) ==
    create_trial(model_id[w][1], train_job_id[w][1], "hp_new")
failed_create_rows(w) == trials

\* lines 56 and 77-79: _create_new_trial gets the ids start read at the head of
\* this iteration.  (The faulty variant reads the assignment row again.)
create_new_trial_args_reread(w) == <<workers[w].train_job_id, workers[w].model_id>>
create_new_trial_args(w) == <<train_job_id[w][1], model_id[w][1]>>

\* lines 76-80 and _create_new_trial
do_new_trial_create(w) ==
    /\ pc[w] = "create_trial"
    /\ Len(trials) < MaxTrials
    /\ \E o \in StoreOutcomes :
         IF o = "commit" /\ ~create_new_trial_raises(create_new_trial_args(w)[1],
                                                     create_new_trial_args(w)[2])
         THEN \E hp \in Hyperparameters :
              /\ model_trial_history' =
                     [model_trial_history EXCEPT
                        ![w] = get_model_trial_history(create_new_trial_args(w)[1],
                                                       create_new_trial_args(w)[2])]
              /\ trials' = create_trial(create_new_trial_args(w)[2],
                                        create_new_trial_args(w)[1], hp)
              /\ created_by' = Append(created_by, w)
              /\ late_created' =
                     [late_created EXCEPT
                        ![w] = IF if_budget_reached(create_new_trial_args(w)[1])
                               THEN @ + 1 ELSE @]
              /\ trial_id' = [trial_id EXCEPT ![w] = Some(Len(trials) + 1)]
              /\ pc' = [pc EXCEPT ![w] = "run_model"]
              /\ UNCHANGED <<exit_code, raised_in>>
         ELSE /\ start_except(w, "create_trial")
              /\ trials' = failed_create_rows(w)
              /\ created_by' = IF Len(trials') > Len(trials)
                               THEN Append(created_by, w) ELSE created_by
              /\ UNCHANGED <<trial_id, model_trial_history, late_created>>
    /\ UNCHANGED <<workers, train_jobs, env_vars, train_job_id, model_id, score,
                   parameters, calls, budget_reached>>

\* lines 77-79, 86-100: the argument of each call of the model capability, from
\* what _create_new_trial returned: the serialized model, the proposed
\* hyperparameters, the train job's train dataset URI for train and its test
\* dataset URI for evaluate.  (The faulty variant trains on the test dataset and
\* evaluates on the train dataset.)
model_call_args_swapped(w) ==
    [n \in {ModelProgram[i] : i \in 1..Len(ModelProgram)} |->
        CASE n = "unserialize_model" -> Some(model_id[w][1])
          [] n = "init" -> Some(trials[trial_id[w][1]].hyperparameters)
          [] n = "train" -> Some(train_jobs[train_job_id[w][1]].test_dataset_uri)
          [] n = "evaluate" -> Some(train_jobs[train_job_id[w][1]].train_dataset_uri)
          [] OTHER -> None]
model_call_args(w) ==
    [n \in {ModelProgram[i] : i \in 1..Len(ModelProgram)} |->
        CASE n = "unserialize_model" -> Some(model_id[w][1])
          [] n = "init" -> Some(trials[trial_id[w][1]].hyperparameters)
          [] n = "train" -> Some(train_jobs[train_job_id[w][1]].train_dataset_uri)
          [] n = "evaluate" -> Some(train_jobs[train_job_id[w][1]].test_dataset_uri)
          [] OTHER -> None]

\* what a call that returned handed back to _do_new_trial (lines 95 and 99)
model_call_value(name, result, s, p) ==
    CASE result = "returned" /\ name = "evaluate" -> Some(s)
      [] result = "returned" /\ name = "dump_parameters" -> Some(p)
      [] OTHER -> None

\* lines 85-100
do_new_trial_run_model(w) ==
    /\ pc[w] = "run_model"
    /\ \E k \in RaisingCalls, s \in Scores, p \in ParameterBlobs :
         /\ calls' = [calls EXCEPT
                        ![w] = [i \in DOMAIN CallsMade(k) |->
                                  CallsMade(k)[i] \o
                                  <<model_call_args(w)[CallsMade(k)[i][1]],
                                    model_call_value(CallsMade(k)[i][1],
                                                     CallsMade(k)[i][2], s, p)>>]]
         /\ score' = [score EXCEPT ![w] = IF Returned(k, "evaluate") THEN Some(s) ELSE None]
         /\ parameters' = [parameters EXCEPT
                             ![w] = IF Returned(k, "dump_parameters") THEN Some(p) ELSE None]
         /\ pc' = [pc EXCEPT ![w] = after_model_calls(k)]
    /\ model_trial_history' = [model_trial_history EXCEPT ![w] = <<>>]
    /\ UNCHANGED <<store_vars, env_vars, train_job_id, model_id, exit_code, trial_id,
                   budget_reached, raised_in, created_by,
                   late_created>>

\* the end of one call of _do_new_trial: its locals go out of scope
do_new_trial_returns(w) ==
    /\ trial_id' = [trial_id EXCEPT ![w] = None]
    /\ score' = [score EXCEPT ![w] = None]
    /\ parameters' = [parameters EXCEPT ![w] = None]
    /\ calls' = [calls EXCEPT ![w] = <<>>]

\* lines 102-108
do_new_trial_mark_complete(w) ==
    /\ pc[w] = "mark_complete"
    /\ \E o \in StoreOutcomes :
         IF o = "commit"
         THEN /\ trials' = mark_complete_write(w)
              /\ do_new_trial_returns(w)
              /\ pc' = [pc EXCEPT ![w] = "read_assignment"]
         ELSE /\ pc' = [pc EXCEPT ![w] = after_mark_complete_raises]
              /\ UNCHANGED <<trials, trial_id, score, parameters, calls>>
    /\ UNCHANGED <<workers, train_jobs, env_vars, train_job_id, model_id, exit_code,
                   model_trial_history, budget_reached, raised_in, created_by,
                   late_created>>

\* lines 110-116
do_new_trial_mark_errored(w) ==
    /\ pc[w] = "mark_errored"
    /\ \E o \in StoreOutcomes :
         IF o = "commit"
         THEN /\ trials' = mark_errored_write(w)
              /\ pc' = [pc EXCEPT ![w] = "read_assignment"]
              /\ UNCHANGED <<exit_code, raised_in>>
         ELSE /\ start_except(w, "mark_errored")
              /\ UNCHANGED trials
    /\ do_new_trial_returns(w)
    /\ UNCHANGED <<workers, train_jobs, env_vars, train_job_id, model_id,
                   model_trial_history, budget_reached, created_by,
                   late_created>>

\* lines 67-72
start_mark_stopped(w) ==
    /\ pc[w] = "mark_stopped"
    /\ \E o \in StoreOutcomes :
         IF o = "commit"
         THEN /\ workers' = mark_train_job_worker_as_stopped(w)
              /\ pc' = [pc EXCEPT ![w] = "exited"]
         ELSE /\ start_raises(w)
              /\ UNCHANGED workers
    /\ UNCHANGED <<trials, train_jobs, env_vars, train_job_id, model_id, exit_code,
                   trial_id, score, parameters, calls, model_trial_history,
                   budget_reached, raised_in, created_by,
                   late_created>>

\* the steps of worker w once its process runs
Running(w) ==
    \/ start_read_assignment(w)
    \/ start_budget_check(w)
    \/ do_new_trial_create(w)
    \/ do_new_trial_run_model(w)
    \/ do_new_trial_mark_complete(w)
    \/ do_new_trial_mark_errored(w)
    \/ start_mark_stopped(w)

Next == \E w \in Workers : start_mark_running(w) \/ Running(w)

Spec == Init /\ [][Next]_vars

\* A single worker: only the process of worker 1 is ever started.  A process that
\* has been started keeps executing (start is a single-threaded loop of blocking
\* calls); whether and when it is started is up to the environment.
LoneNext == start_mark_running(1) \/ Running(1)

LoneSpec == Init /\ [][LoneNext]_vars /\ WF_vars(Running(1))

\* The first worker alone, with an administrator that may change its assignment
\* row at any time while it runs.
Reassignments == {<<1, 1>>, <<2, 2>>}

reassign(w) ==
    /\ pc[w] \notin {"start", "exited", "raised"}
    /\ \E a \in Reassignments :
         /\ a # <<workers[w].train_job_id, workers[w].model_id>>
         /\ workers' = [workers EXCEPT ![w].train_job_id = a[1], ![w].model_id = a[2]]
    /\ UNCHANGED <<trials, train_jobs, env_vars, pc, train_job_id, model_id, exit_code,
                   trial_id, score, parameters, calls, model_trial_history,
                   budget_reached, raised_in, created_by,
                   late_created>>

ReassignNext == start_mark_running(1) \/ Running(1) \/ reassign(1)

ReassignSpec == Init /\ [][ReassignNext]_vars

\* ------------------------------------------------------- the properties
\* start has ended: by exit(exit_code), or by an exception that left it
Exited(w) == pc[w] = "exited"
Ended(w) == pc[w] \in {"exited", "raised"}
ExitedWith(w, c) == pc[w] = "exited" /\ exit_code[w] = Some(c)

TrialIds == 1..Len(trials)
CreatedBy(w) == {i \in TrialIds : created_by[i] = w}
RunningOf(w) == {i \in CreatedBy(w) : trials[i].status = "RUNNING"}
CompleteOf(j) ==
    {i \in TrialIds : trials[i].status = "COMPLETED" /\ trials[i].train_job_id = j}
\* read from the job's row alone
BudgetAmount(j) == train_jobs[j].budget_amount
Max(a, b) == IF a >= b THEN a ELSE b
\* the model capability call that raised for w's current trial, if one did
RaisedCall(w) ==
    {calls[w][i][1] : i \in {n \in 1..Len(calls[w]) : calls[w][n][2] = "raised"}}

\* C1 (as claimed): whenever Worker.start has ended, by exit or by an exception of
\* a store call, the worker's assignment is not left in status running.
C1_NeverLeftRunning == \A w \in Workers : Ended(w) => workers[w].status # "RUNNING"

C3_AtMostOneRunningTrial ==
    \A w \in Workers :
        /\ Cardinality(RunningOf(w)) <= 1
        /\ pc[w] \in {"start", "read_assignment", "budget_check", "create_trial"}
           => RunningOf(w) = {}

\* C3 witness: a worker runs its second trial, the first one finalized.
C3_Witness ==
    \E w \in Workers :
        /\ pc[w] = "run_model"
        /\ Cardinality(RunningOf(w)) = 1
        /\ \E i \in CreatedBy(w) : trials[i].status # "RUNNING"

\* C4 (as claimed): once start is over, it has exited with code 0 exactly if its last
\* budget check returned true, and it has exited with code 1 only if an exception
\* reached the loop's handler from the re-read, the budget check, the trial creation
\* or the trial finalization, in which case it has not exited with code 0.  (An
\* exception that leaves start is not held against the "code 1" half.)
C4_ExitCodeContract ==
    \A w \in Workers :
        Ended(w)
        => /\ ExitedWith(w, 0) <=> budget_reached[w] = Some(TRUE)
           /\ ExitedWith(w, 1) => raised_in[w] \in {"read_assignment", "budget_check",
                                                    "create_trial", "mark_errored"}
           /\ raised_in[w] # "nothing" => ~ExitedWith(w, 0)
           /\ Exited(w) => ExitedWith(w, 0) \/ ExitedWith(w, 1)

\* the lone-worker scenarios: only worker w has been started
Lone(w) == \A v \in Workers \ {w} : pc[v] = "start"
\* the rows earlier processes left, and those of them that are complete rows of job j
PriorIds == {i \in TrialIds : created_by[i] = 0}
PriorComplete(j) == CompleteOf(j) \cap PriorIds
\* the job the worker is assigned to (no step of Spec or LoneSpec changes it)
JobOf(w) == workers[w].train_job_id
\* w's assignment names a train job of a known budget type and a model with a
\* well-formed hyperparameter configuration, both known to the store
WellConfigured(w) ==
    workers[w].train_job_id \in TrainJobIds /\ workers[w].model_id \in ModelIds
\* how many trials the budget of w's job leaves to run
Needed(w) == Max(BudgetAmount(JobOf(w)) - Cardinality(PriorComplete(JobOf(w))), 0)
\* the cap on the store's rows leaves room for them
Room(w) == Cardinality(PriorIds) + Needed(w) <= MaxTrials
AlwaysSucceeds(w) ==
    /\ Lone(w)
    /\ WellConfigured(w)
    /\ store_mode = "reliable"
    /\ model_mode = "succeeds"
    /\ Room(w)

\* C5, safety half: a lone worker with a model that always succeeds and a reliable
\* store never creates more than max(B - c, 0) trials, every trial it finalized is
\* complete with a score evaluate returned, and when it has ended it has exited
\* with code 0 having created exactly max(B - c, 0) trials, all complete.
C5_CreatesExactlyNeeded ==
    \A w \in Workers :
        AlwaysSucceeds(w)
        => /\ Cardinality(CreatedBy(w)) <= Needed(w)
           /\ RunningOf(w) # {} => pc[w] \in {"run_model", "mark_complete"}
           /\ \A i \in CreatedBy(w) \ RunningOf(w) :
                /\ trials[i].status = "COMPLETED"
                /\ trials[i].score \in {Some(x) : x \in Scores}
           /\ ~(pc[w] \in {"raised", "mark_errored"})
           /\ pc[w] \in {"mark_stopped", "exited"}
              => /\ exit_code[w] = Some(0)
                 /\ Cardinality(CreatedBy(w)) = Needed(w)
                 /\ RunningOf(w) = {}
                 /\ Cardinality(CompleteOf(JobOf(w))) >= BudgetAmount(JobOf(w))

\* C5: the safety half always holds, and a started lone worker in that scenario
\* eventually exits with code 0.
C5_BudgetRunTerminates ==
    /\ []C5_CreatesExactlyNeeded
    /\ \A w \in Workers : (AlwaysSucceeds(w) /\ pc[w] # "start") ~> ExitedWith(w, 0)

\* C5 witness: a lone worker has exited with code 0 after a budget of 2 with no prior
\* complete trial: it created 2 trials and both are complete.
C5_Witness ==
    \E w \in Workers :
        /\ AlwaysSucceeds(w)
        /\ ExitedWith(w, 0)
        /\ BudgetAmount(JobOf(w)) = 2
        /\ PriorComplete(JobOf(w)) = {}
        /\ Cardinality(CreatedBy(w)) = 2
        /\ \A i \in CreatedBy(w) : trials[i].status = "COMPLETED"

RaceScenario ==
    /\ \A w \in Workers : JobOf(w) = 1 /\ WellConfigured(w)
    /\ BudgetAmount(1) = 1
    /\ PriorIds = {}
    /\ model_mode = "succeeds"

\* C7 (as claimed): in the scenario, once both workers have exited, 1 or 2 trials
\* are complete.
C7_OneOrTwoComplete ==
    (RaceScenario /\ \A w \in Workers : Exited(w))
    => Cardinality(CompleteOf(1)) \in {1, 2}

\* C7 (amended): in the scenario, never more than 2 trials are complete; once both
\* workers have ended, at least 1 is complete if some worker exited with code 0,
\* and with a store whose calls never fail both workers exit with code 0, so 1 or 2
\* are complete.
C7_OneOrTwoUnlessStoreFails ==
    RaceScenario
    => /\ Cardinality(CompleteOf(1)) <= 2
       /\ (\A w \in Workers : Ended(w))
          => /\ (\E w \in Workers : ExitedWith(w, 0)) => Cardinality(CompleteOf(1)) >= 1
             /\ store_mode = "reliable"
                => /\ \A w \in Workers : ExitedWith(w, 0)
                   /\ Cardinality(CompleteOf(1)) \in {1, 2}

\* C7 witness: with a reliable store both workers have exited and 2 trials are
\* complete, one by each worker.
C7_Witness ==
    /\ RaceScenario
    /\ store_mode = "reliable"
    /\ \A w \in Workers : ExitedWith(w, 0)
    /\ Cardinality(CompleteOf(1)) = 2

\* a budget check of w commits in this step
BudgetChecked(w) ==
    /\ pc[w] = "budget_check"
    /\ pc'[w] # pc[w]
    /\ raised_in'[w] = "nothing"

\* C8: a budget check for the train job J the worker read returns true exactly if
\* the trials with status complete and train job J number at least J's
\* budget_amount; no other row of the store enters the count.
C8_BudgetCountsCompleteOfJob ==
    [][\A w \in Workers :
         BudgetChecked(w)
         => budget_reached'[w] =
              Some(Cardinality(CompleteOf(train_job_id[w][1]))
                       >= BudgetAmount(train_job_id[w][1]))]_vars

\* C8 witness: a check returned false with budget_amount - 1 complete trials while
\* the store also held a row of the job that is not complete or a complete row of
\* another job; one more completion later the other worker's check returned true.
C8_Witness ==
    \E w \in Workers, v \in Workers :
        /\ budget_reached[w] = Some(FALSE)
        /\ budget_reached[v] = Some(TRUE)
        /\ pc[v] = "mark_stopped"
        /\ BudgetAmount(1) >= 1
        /\ Cardinality(CompleteOf(1)) = BudgetAmount(1)
        /\ \E i \in PriorIds : trials[i].status # "COMPLETED" \/ trials[i].train_job_id # 1

\* the scenario of C9: a lone worker, a budget of at least 1, no complete trial of
\* its job at the start, a model capability that raises on every train
AllErrors(w) ==
    /\ Lone(w)
    /\ WellConfigured(w)
    /\ model_mode = "raises_on_train"
    /\ BudgetAmount(JobOf(w)) >= 1
    /\ PriorComplete(JobOf(w)) = {}

\* C9: in that scenario no trial of the job ever completes, every trial the worker
\* finalized is errored, its budget checks all return false, and it never gets an
\* exit code 0; with a store whose calls never fail it never leaves the loop.
C9_AllErrorsNeverExhaustBudget ==
    \A w \in Workers :
        AllErrors(w)
        => /\ CompleteOf(JobOf(w)) = {}
           /\ \A i \in CreatedBy(w) \ RunningOf(w) : trials[i].status = "ERRORED"
           /\ budget_reached[w] # Some(TRUE)
           /\ exit_code[w] # Some(0)
           /\ store_mode = "reliable"
              => pc[w] \in {"start", "read_assignment", "budget_check", "create_trial",
                            "run_model", "mark_errored"}

\* C9 witness: the lone worker is about to create a third trial after two errored
\* ones under a budget of 1.
C9_Witness ==
    \E w \in Workers :
        /\ AllErrors(w)
        /\ BudgetAmount(JobOf(w)) = 1
        /\ pc[w] = "create_trial"
        /\ Cardinality({i \in CreatedBy(w) : trials[i].status = "ERRORED"}) = 2

\* the (hyperparameters, score) pairs of the complete trials of job j and model m
PairsOf(j, m) ==
    {<<trials[i].hyperparameters, trials[i].score>> :
        i \in {n \in CompleteOf(j) : trials[n].model_id = m}}
\* how often a pair occurs among those trials, and in a history
TimesInStore(j, m, pair) ==
    Cardinality({i \in CompleteOf(j) :
                    /\ trials[i].model_id = m
                    /\ <<trials[i].hyperparameters, trials[i].score>> = pair})
TimesIn(history, pair) ==
    Cardinality({n \in 1..Len(history) : history[n] = pair})

\* C10: the history a worker trains the tuner with when it selects hyperparameters
\* for (J, M) holds exactly the (hyperparameters, score) pairs of the trials that are
\* then in the store with status complete, train job J and model M, each as often as
\* it occurs there, whoever completed them.
C10_TunerHistoryIsCompleteOfJobAndModel ==
    [][\A w \in Workers :
         (pc[w] = "create_trial" /\ pc'[w] = "run_model")
         => LET j == train_job_id[w][1]
                m == model_id[w][1]
                h == model_trial_history'[w]
            IN /\ \A n \in 1..Len(h) : h[n] \in PairsOf(j, m)
               /\ \A pair \in PairsOf(j, m) : TimesIn(h, pair) = TimesInStore(j, m, pair)]_vars

\* C10 witness: a worker trained the tuner with a history of 1 pair, that of a trial
\* the other worker completed, while the store also held a complete trial of another
\* model or job, or an errored or running trial.
C10_Witness ==
    \E w \in Workers :
        /\ pc[w] = "run_model"
        /\ Len(model_trial_history[w]) = 1
        /\ \E i \in CompleteOf(1) :
             /\ created_by[i] \in Workers \ {w}
             /\ trials[i].model_id = model_id[w][1]
        /\ \E i \in TrialIds \ {trial_id[w][1]} :
             \/ trials[i].status # "COMPLETED"
             \/ trials[i].model_id # model_id[w][1]
             \/ trials[i].train_job_id # 1

\* the life of the trial rows over one step: rows are only appended, and appended
\* running; a row's status changes only from running to complete or errored; a row
\* that is complete or errored is not written again
TrialLifecycleStep ==
    /\ Len(trials') >= Len(trials)
    /\ \A i \in 1..Len(trials') :
          IF i \in TrialIds
          THEN /\ trials[i].status # "RUNNING" => trials'[i] = trials[i]
               /\ trials'[i].status # trials[i].status
                  => trials'[i].status \in {"COMPLETED", "ERRORED"}
          ELSE trials'[i].status = "RUNNING"

C12_ScoreAndParametersIffComplete ==
    \A i \in TrialIds :
        IF trials[i].status = "COMPLETED"
        THEN trials[i].score # None /\ trials[i].parameters # None
        ELSE trials[i].score = None /\ trials[i].parameters = None

\* C12 witness: the workers have created a trial that is now complete, with the
\* returned score and blob, one that is errored and one that is still running.
C12_Witness ==
    \E i, k, n \in TrialIds \ PriorIds :
        /\ trials[i].status = "COMPLETED"
        /\ trials[i].score = Some(7) /\ trials[i].parameters = Some("blob_new")
        /\ trials[k].status = "ERRORED"
        /\ trials[n].status = "RUNNING"

\* C13: no step changes the hyperparameters, the model_id or the train_job_id of a
\* trial row that exists; in particular the step that marks a trial complete or
\* errored leaves them as create_trial wrote them.
C13_CreationFieldsAreFrozen ==
    [][\A i \in TrialIds :
         /\ trials'[i].hyperparameters = trials[i].hyperparameters
         /\ trials'[i].model_id = trials[i].model_id
         /\ trials'[i].train_job_id = trials[i].train_job_id]_vars

\* C13 witness: the second worker, assigned the other model, has a finalized trial
\* that still carries the proposed hyperparameters and the worker's model and job.
C13_Witness ==
    \E i \in CreatedBy(2) :
        /\ workers[2].model_id = 2
        /\ trials[i].status \in {"COMPLETED", "ERRORED"}
        /\ trials[i].hyperparameters = "hp_new"
        /\ trials[i].model_id = 2
        /\ trials[i].train_job_id = 1

\* w's assignment carries a train job id or a model id the store has no row for
UnknownAssignment(w) ==
    \/ workers[w].train_job_id \in UnknownTrainJobIds
    \/ workers[w].model_id \in UnknownModelIds
\* w has left the loop through start's handler in the iteration that looked the
\* train job up (budget check) or the model up (trial creation)
LeftLoopOnLookup(w) ==
    /\ pc[w] \in {"mark_stopped", "exited", "raised"}
    /\ raised_in[w] = IF workers[w].train_job_id \in UnknownTrainJobIds
                      THEN "budget_check" ELSE "create_trial"

\* C14 (as claimed): a worker whose assignment carries an unknown train job id or
\* model id creates no trial, and once its start is over it has exited with code 1
\* and its assignment is marked stopped.
C14_UnknownIdExitsStopped ==
    \A w \in Workers :
        UnknownAssignment(w)
        => /\ CreatedBy(w) = {}
           /\ (LeftLoopOnLookup(w) /\ Ended(w))
              => ExitedWith(w, 1) /\ workers[w].status = "STOPPED"

\* What does hold of such a worker: it creates no trial and never gets past the
\* trial creation.  With an unknown train job it leaves the loop with exit code 1
\* at its first budget check; with an unknown model it leaves the loop with exit
\* code 1 at its first trial creation, unless the budget check before it returned
\* true or raised (exit code 0, or 1, the model never looked up).  If then the
\* final transaction commits, it exits with that code and the assignment is stopped.
C14_UnknownIdLeavesLoop ==
    \A w \in Workers :
        UnknownAssignment(w)
        => /\ CreatedBy(w) = {}
           /\ pc[w] \in {"start", "read_assignment", "budget_check", "create_trial",
                         "mark_stopped", "exited", "raised"}
           /\ pc[w] = "create_trial" => workers[w].train_job_id \notin UnknownTrainJobIds
           /\ pc[w] \in {"mark_stopped", "exited"}
              => \/ exit_code[w] = Some(1)
                 \/ /\ exit_code[w] = Some(0)
                    /\ budget_reached[w] = Some(TRUE)
                    /\ workers[w].train_job_id \notin UnknownTrainJobIds
           /\ Exited(w) => workers[w].status = "STOPPED"

\* the configuration failure w's next step meets: its budget check is for a train
\* job of an unknown budget type, or its trial creation is for a model whose
\* hyperparameter configuration the tuning strategy rejects
ConfigurationFailure(w) ==
    \/ pc[w] = "budget_check" /\ train_job_id[w][1] \in MisconfiguredTrainJobIds
    \/ pc[w] = "create_trial" /\ model_id[w][1] \in MalformedModelIds

\* C15: the step that meets a configuration failure ends the loop with exit code 1
\* and writes no trial row; a worker that has left the loop never re-enters it.
C15_ConfigurationFailureIsFatal ==
    [][\A w \in Workers :
         /\ (ConfigurationFailure(w) /\ pc'[w] # pc[w])
            => /\ pc'[w] = "mark_stopped"
               /\ exit_code'[w] = Some(1)
               /\ trials' = trials
         /\ pc[w] \in {"mark_stopped", "exited", "raised"}
            => pc'[w] \in {"mark_stopped", "exited", "raised"}]_vars

\* C15 witness: with a reliable store, one worker has left the loop with exit code
\* 1 at the budget check of a train job of unknown budget type, the other at the
\* trial creation for a model with a malformed configuration; neither created a trial.
C15_Witness ==
    /\ store_mode = "reliable"
    /\ \E w, v \in Workers :
          /\ workers[w].train_job_id \in MisconfiguredTrainJobIds
          /\ raised_in[w] = "budget_check"
          /\ workers[v].model_id \in MalformedModelIds
          /\ raised_in[v] = "create_trial"
          /\ budget_reached[v] = Some(FALSE)
          /\ \A u \in {w, v} : ExitedWith(u, 1) /\ CreatedBy(u) = {}

\* the process that created trial i is over: an earlier process, or a worker whose
\* start has ended
CreatorIsGone(i) == IF created_by[i] = 0 THEN TRUE ELSE Ended(created_by[i])

\* C16: a step of a worker leaves every trial row it did not create itself as it
\* is, and a running trial whose creator is gone (crashed earlier, or exited)
\* is still running after any step.
C16_FinalizesOnlyOwnTrials ==
    [][/\ \A w \in Workers : \A i \in TrialIds :
             (pc'[w] # pc[w] /\ created_by[i] # w) => trials'[i] = trials[i]
       /\ \A i \in TrialIds :
             (trials[i].status = "RUNNING" /\ CreatorIsGone(i))
             => trials'[i].status = "RUNNING"]_vars

\* C16 witness: both workers' starts are over; an earlier process's trial and the
\* trial of the worker whose errored mark raised are still running, although the
\* other worker created and completed its own trial after them.
C16_Witness ==
    \E w, v \in Workers : \E i \in PriorIds : \E k \in RunningOf(w) : \E n \in CreatedBy(v) :
        /\ w # v /\ Ended(w) /\ Ended(v)
        /\ trials[i].status = "RUNNING"
        /\ n > k /\ trials[n].status = "COMPLETED"

C18_FailedFinalizeIsRetried ==
    [][\A w \in Workers :
         (/\ pc[w] \in {"mark_complete", "mark_errored"}
          /\ trials'[finalized_trial(w)].status = "RUNNING")
         => pc'[w] = pc[w]]_vars

\* C19: a worker gets to the trial creation only from a budget check that returned
\* false for the train job in its locals, and to the budget check only from the
\* re-read, which sets the locals to the assignment row as it is then; no other
\* step changes the locals, whatever happens to the row; and a trial is created at
\* the trial creation only, carrying the locals' train job and model.
C19_CreationFollowsRereadAndCheck ==
    [][\A w \in Workers :
         /\ (pc'[w] = "budget_check" /\ pc[w] # "budget_check")
            => /\ pc[w] = "read_assignment"
               /\ train_job_id'[w] = Some(workers[w].train_job_id)
               /\ model_id'[w] = Some(workers[w].model_id)
         /\ (pc'[w] = "create_trial" /\ pc[w] # "create_trial")
            => /\ pc[w] = "budget_check"
               /\ budget_reached'[w] = Some(FALSE)
               /\ Cardinality(CompleteOf(train_job_id[w][1]))
                      < BudgetAmount(train_job_id[w][1])
         /\ pc[w] # "read_assignment"
            => train_job_id'[w] = train_job_id[w] /\ model_id'[w] = model_id[w]
         /\ (Len(trials') > Len(trials) /\ created_by'[Len(trials')] = w)
            => /\ pc[w] = "create_trial"
               /\ Len(trials') = Len(trials) + 1
               /\ trials'[Len(trials')].train_job_id = train_job_id[w][1]
               /\ trials'[Len(trials')].model_id = model_id[w][1]]_vars

\* C19 witness: the worker created a trial for train job 1 and model 1 although its
\* assignment had been changed after the re-read, then a trial for train job 2 and
\* model 2, as re-read in the next iteration, although the assignment had been
\* changed back.
C19_Witness ==
    \E w \in Workers : \E i, k \in CreatedBy(w) :
        /\ i < k
        /\ trials[i].train_job_id = 1 /\ trials[i].model_id = 1
        /\ trials[k].train_job_id = 2 /\ trials[k].model_id = 2
        /\ pc[w] = "run_model" /\ trial_id[w] = Some(k)
        /\ workers[w].train_job_id = 1 /\ workers[w].model_id = 1

\* the complete trials of train job j have reached its budget
BudgetIsReached(j) == Cardinality(CompleteOf(j)) >= BudgetAmount(j)
\* w's next step is a budget check for a train job of a known budget type whose
\* budget is reached
ChecksReachedBudget(w) ==
    /\ pc[w] = "budget_check"
    /\ train_job_id[w][1] \in TrainJobIds
    /\ BudgetIsReached(train_job_id[w][1])

\* C20 (as claimed): with fixed assignments and budget, a worker creates at most
\* one trial for its train job while the job's budget is reached, and its budget
\* check for a job whose budget is reached ends the loop with exit code 0.
C20_SelfCorrectingExitsWithCode0 ==
    [][\A w \in Workers :
         /\ late_created'[w] <= 1
         /\ (ChecksReachedBudget(w) /\ pc'[w] # pc[w])
            => pc'[w] = "mark_stopped" /\ exit_code'[w] = Some(0)]_vars

\* C20 (amended): with fixed assignments and budget, a worker creates at most one
\* trial for its train job while the job's budget is reached, and its budget check
\* for a job whose budget is reached ends the loop: with exit code 0 if the store
\* call of the check succeeds, with exit code 1 if it raises.
C20_SelfCorrectingUnlessCheckFails ==
    [][\A w \in Workers :
         /\ late_created'[w] <= 1
         /\ (ChecksReachedBudget(w) /\ pc'[w] # pc[w])
            => /\ pc'[w] = "mark_stopped"
               /\ \/ exit_code'[w] = Some(0) /\ budget_reached'[w] = Some(TRUE)
                  \/ /\ store_mode = "faulty"
                     /\ raised_in'[w] = "budget_check"
                     /\ exit_code'[w] = Some(1)]_vars

\* C20 witness: one worker created a trial after the other's trial had brought the
\* job to its budget, finished it, and left the loop with exit code 0 at its next
\* budget check; the other worker created nothing further.
C20_Witness ==
    \E w, v \in Workers :
        /\ late_created[w] = 1 /\ late_created[v] = 0
        /\ RunningOf(w) = {}
        /\ pc[w] = "mark_stopped" /\ exit_code[w] = Some(0)
        /\ budget_reached[w] = Some(TRUE)
        /\ ExitedWith(v, 0)

\* the trial rows w created are as they were, and w created no further one
OwnTrialsUntouched(w) ==
    /\ CreatedBy(w)' = CreatedBy(w)
    /\ \A i \in CreatedBy(w) : trials'[i] = trials[i]

\* the order of the two writes of w's assignment status: it changes only by the
\* running mark, from the start position and before w created a trial, and by the
\* stopped mark, from the position after the loop; a worker whose start is over
\* writes no trial row
AssignmentWritesInOrder(w) ==
    /\ workers'[w].status # workers[w].status
       => \/ /\ pc[w] = "start" /\ workers[w].status = "IDLE"
             /\ workers'[w].status = "RUNNING" /\ CreatedBy(w)' = {}
          \/ /\ pc[w] = "mark_stopped" /\ workers[w].status = "RUNNING"
             /\ workers'[w].status = "STOPPED" /\ Ended(w)'
    /\ pc[w] \in {"mark_stopped", "exited", "raised"} => OwnTrialsUntouched(w)

\* C21 (as claimed): in one run of start the assignment is marked running exactly
\* once, before any trial is created, and stopped exactly once, after the loop has
\* ended, and after the stopped write the worker creates or finalizes no trial.
\* "Exactly once" is read on a finite run as: the writes come in that order, and
\* when start is over after its loop has ended, the stopped mark has been written.
C21_RunningOnceThenStoppedOnce ==
    [][\A w \in Workers :
         /\ AssignmentWritesInOrder(w)
         /\ (pc[w] = "mark_stopped" /\ Ended(w)') => workers'[w].status = "STOPPED"]_vars

\* What does hold: each mark is written at most once and in that order, the
\* stopped mark is attempted by every worker whose loop has ended, and a worker
\* that has left the loop writes no trial row.
C21_RunningThenStoppedAtMostOnce ==
    [][\A w \in Workers : AssignmentWritesInOrder(w)]_vars

\* the record of w's call of the model capability named n
CallNamed(w, n) == calls[w][CHOOSE i \in 1..Len(calls[w]) : calls[w][i][1] = n]
\* w has made every call of the model capability, in program order, and each returned
AllCallsReturned(w) ==
    /\ Len(calls[w]) = Len(ModelProgram)
    /\ \A i \in 1..Len(ModelProgram) :
          calls[w][i][1] = ModelProgram[i] /\ calls[w][i][2] = "returned"
\* dump_parameters or destroy raised for w's current trial (so evaluate had returned)
RaisedAfterEvaluate(w) ==
    RaisedCall(w) # {} /\ RaisedCall(w) \subseteq {"dump_parameters", "destroy"}
\* a step that marks trial i complete was taken by a worker at the complete mark of
\* that trial, after all its calls returned: train on the train dataset URI of the
\* trial's job, evaluate on its test dataset URI; and it stores the score evaluate
\* returned and the parameters dump_parameters returned
CompleteOnlyAfterAllCalls ==
    \A i \in TrialIds :
        (trials[i].status # "COMPLETED" /\ trials'[i].status = "COMPLETED")
        => \E w \in Workers :
             /\ pc[w] = "mark_complete" /\ trial_id[w] = Some(i)
             /\ AllCallsReturned(w)
             /\ CallNamed(w, "train")[3]
                   = Some(train_jobs[trials[i].train_job_id].train_dataset_uri)
             /\ CallNamed(w, "evaluate")[3]
                   = Some(train_jobs[trials[i].train_job_id].test_dataset_uri)
             /\ CallNamed(w, "evaluate")[4] # None
             /\ CallNamed(w, "dump_parameters")[4] # None
             /\ trials'[i].score = CallNamed(w, "evaluate")[4]
             /\ trials'[i].parameters = CallNamed(w, "dump_parameters")[4]
\* a raise of dump_parameters or destroy takes the worker to the errored mark
LateRaiseEntersHandler ==
    \A w \in Workers :
        (pc[w] = "run_model" /\ pc'[w] # pc[w] /\ RaisedAfterEvaluate(w)')
        => pc'[w] = "mark_errored" /\ trials' = trials

C23_FailedCompleteMarkIsMarkedErrored ==
    [][\A w \in Workers :
         /\ (/\ pc[w] = "mark_complete" /\ pc'[w] # pc[w]
             /\ trials'[trial_id[w][1]].status # "COMPLETED")
            => /\ pc'[w] = "mark_errored"
               /\ trial_id'[w] = trial_id[w]
               /\ trials' = trials
               /\ exit_code'[w] = None
         /\ (/\ pc[w] = "mark_errored" /\ AllCallsReturned(w)
             /\ trials'[trial_id[w][1]].status # "RUNNING")
            => /\ trials'[trial_id[w][1]].status = "ERRORED"
               /\ pc'[w] = "read_assignment"
               /\ exit_code'[w] = None]_vars

\* C23 witness: every call of the model capability returned for a worker's first
\* trial, its complete mark raised and its errored mark committed; the worker went
\* on, and its second trial is complete.
C23_Witness ==
    \E w \in Workers : \E i, k \in CreatedBy(w) :
        /\ model_mode = "succeeds" /\ store_mode = "faulty"
        /\ i < k
        /\ trials[i].status = "ERRORED"
        /\ trials[k].status = "COMPLETED"
        /\ pc[w] = "read_assignment" /\ exit_code[w] = None

\* C24: when the transaction that marks a worker's trial errored raises, the
\* worker leaves the loop with exit code 1 for the final block, the trial is left
\* running, and from there the worker's only step is the attempt of the stopped
\* write, which ends start and leaves the trial rows alone.
C24_FailedErroredMarkEndsLoop ==
    [][\A w \in Workers :
         /\ (/\ pc[w] = "mark_errored" /\ pc'[w] # pc[w]
             /\ trials'[trial_id[w][1]].status # "ERRORED")
            => /\ pc'[w] = "mark_stopped"
               /\ exit_code'[w] = Some(1)
               /\ raised_in'[w] = "mark_errored"
               /\ trials' = trials
               /\ trials'[trial_id[w][1]].status = "RUNNING"
         /\ (pc[w] = "mark_stopped" /\ raised_in[w] = "mark_errored" /\ pc'[w] # pc[w])
            => /\ Ended(w)'
               /\ trials' = trials
               /\ exit_code'[w] = Some(1)
               /\ workers'[w].status = "STOPPED" \/ pc'[w] = "raised"]_vars

\* C24 witness: a worker's errored mark raised; it has exited with code 1, its
\* assignment is stopped and its trial is still running.
C24_Witness ==
    \E w \in Workers :
        /\ raised_in[w] = "mark_errored"
        /\ ExitedWith(w, 1)
        /\ workers[w].status = "STOPPED"
        /\ Cardinality(RunningOf(w)) = 1

\* C25: a worker has exit code 0 only after a budget check that returned true took
\* it out of the loop: it is then at the final block or its start is over, it is
\* in no call of _do_new_trial (it created nothing in the iteration of that budget
\* check), and every trial it created is complete or errored.
C25_ExitCode0LeavesNoRunningTrial ==
    \A w \in Workers :
        exit_code[w] = Some(0)
        => /\ pc[w] \in {"mark_stopped", "exited", "raised"}
           /\ budget_reached[w] = Some(TRUE)
           /\ raised_in[w] = "nothing"
           /\ trial_id[w] = None
           /\ RunningOf(w) = {}
           /\ \A i \in CreatedBy(w) : trials[i].status \in {"COMPLETED", "ERRORED"}

\* C25 witness: a worker has exited with code 0 having created one trial that is
\* complete and one that is errored.
C25_Witness ==
    \E w \in Workers : \E i, k \in CreatedBy(w) :
        /\ ExitedWith(w, 0)
        /\ workers[w].status = "STOPPED"
        /\ trials[i].status = "ERRORED"
        /\ trials[k].status = "COMPLETED"
        /\ RunningOf(w) = {}
====
